---- MODULE Spec2Model ----
(***************************************************************************)
(* A model of data/gen_packetIDs.go: the generator that downloads the      *)
(* protocol description, unpacks the packet-id mappings of the login, play *)
(* and status states, makes the names of the two directions unique, and    *)
(* writes packetIDs.go.                                                    *)
(***************************************************************************)
EXTENDS Integers, Sequences, FiniteSets, TLC

VARIABLES pc, data, out, maxLen, file, stderr, exitCode

vars == <<pc, data, out, maxLen, file, stderr, exitCode>>

(***************************************************************************)
(* Bounds of the enumerated schema documents.                              *)
(***************************************************************************)
\* packet entries of a well-formed schema document, over all six mappings
MaxEntries == 3
\* packet entries of a schema document with a malformed path
MaxEntriesMalformed == 1

Phases == {"login", "play", "status"}
Directions == {"toClient", "toServer"}
\* the declared packet names of the enumerated documents
RawNames == {"chat", "chat_clientbound", "chat_serverbound"}

(***************************************************************************)
(* Strings.                                                                *)
(***************************************************************************)
Lower == "abcdefghijklmnopqrstuvwxyz"
Upper == "ABCDEFGHIJKLMNOPQRSTUVWXYZ"
Digits == "0123456789"

Char(s, i) == SubSeq(s, i, i)

Chars(s) == {Char(s, i) : i \in 1..Len(s)}
LowerSet == Chars(Lower)
UpperSet == Chars(Upper)
DigitSet == Chars(Digits)
\* the upper-case letter of each lower-case letter
ToUpper == [c \in LowerSet |->
              Char(Upper, CHOOSE i \in 1..Len(Lower) : Char(Lower, i) = c)]

HasPrefix(s, p) == Len(s) >= Len(p) /\ SubSeq(s, 1, Len(p)) = p

RECURSIVE Repeat(_, _)
\* strings.Repeat for a count >= 0 (a negative count panics: see WriteFile)
Repeat(s, n) == IF n <= 0 THEN "" ELSE s \o Repeat(s, n - 1)

RECURSIVE CamelFrom(_, _, _)
CamelFrom(s, i, capNext) ==
  IF i > Len(s) THEN ""
  ELSE LET c == Char(s, i) IN
       IF c \in {"_", " ", "-", "."} THEN CamelFrom(s, i + 1, TRUE)
       ELSE IF c \in LowerSet
         THEN (IF capNext THEN ToUpper[c] ELSE c)
              \o CamelFrom(s, i + 1, FALSE)
       ELSE IF c \in UpperSet \/ c \in DigitSet
         THEN c \o CamelFrom(s, i + 1, FALSE)
       ELSE CamelFrom(s, i + 1, FALSE)

\* strcase.ToCamel: separators dropped, the first letter and every letter
\* after a separator upper-cased
ToCamel(s) == CamelFrom(s, 1, TRUE)

(***************************************************************************)
(* Go maps.                                                                *)
(***************************************************************************)
EmptyMap == [k \in {} |-> ""]

\* delete(m, k)
MapDelete(m, k) == [x \in DOMAIN m \ {k} |-> m[x]]

\* m[k] = v
MapPut(m, k, v) == [x \in DOMAIN m \cup {k} |-> IF x = k THEN v ELSE m[x]]

\* v := m[k], the zero value "" for an absent key
MapGet(m, k) == IF k \in DOMAIN m THEN m[k] ELSE ""

RECURSIVE Perms(_)
\* the orders in which a range over a map with key set S can visit it
Perms(S) ==
  IF S = {} THEN {<<>>}
  ELSE UNION {{<<x>> \o p : p \in Perms(S \ {x})} : x \in S}

(***************************************************************************)
(* Decoded JSON values (interface{}): a map[string]interface{}, a          *)
(* []interface{}, a string, a float64.                                     *)
(***************************************************************************)
JMap(f) == [kind |-> "map", val |-> f]
JList(s) == [kind |-> "list", val |-> s]
JStr(s) == [kind |-> "string", val |-> s]
JNum(n) == [kind |-> "number", val |-> n]

\* what %T prints for a decoded value
GoType(v) ==
  CASE v.kind = "map" -> "map[string]interface {}"
    [] v.kind = "list" -> "[]interface {}"
    [] v.kind = "string" -> "string"
    [] OTHER -> "float64"

Quote(s) == "\"" \o s \o "\""

(***************************************************************************)
(* unnest: reach through a nested map along keys.                          *)
(***************************************************************************)
RECURSIVE unnest(_, _)
unnest(input, keys) ==
  IF keys = <<>> THEN [ok |-> TRUE, val |-> input, err |-> ""]
  ELSE LET k == Head(keys) IN
       IF k \notin DOMAIN input
         THEN [ok |-> FALSE, val |-> EmptyMap,
               err |-> "key " \o Quote(k) \o " not found"]
       ELSE IF input[k].kind # "map"
         THEN [ok |-> FALSE, val |-> EmptyMap,
               err |-> "key " \o Quote(k) \o " was " \o GoType(input[k])
                       \o ", expected a string map"]
       ELSE unnest(input[k].val, Tail(keys))

(***************************************************************************)
(* duplexMappings and EnsureUniqueNames.                                   *)
(***************************************************************************)
\* the zero value duplexMappings{}: both maps nil
ZeroDuplex == [Clientbound |-> EmptyMap, Serverbound |-> EmptyMap]

\* the body of the loop over clientKeys, for one key k
RenameIfDuplex(m, k) ==
  IF k \in DOMAIN m.Serverbound
    THEN LET cVal == MapGet(m.Clientbound, k)
             sVal == MapGet(m.Serverbound, k)
         IN [Clientbound |-> MapPut(MapDelete(m.Clientbound, k),
                                     k \o "Clientbound", cVal),
             Serverbound |-> MapPut(MapDelete(m.Serverbound, k),
                                     k \o "Serverbound", sVal)]
    ELSE m

RECURSIVE EnsureUniqueNames(_, _)
\* EnsureUniqueNames on m, the slice clientKeys holding the keys of
\* m.Clientbound in the order the range over the map produced them
EnsureUniqueNames(m, clientKeys) ==
  IF clientKeys = <<>> THEN m
  ELSE EnsureUniqueNames(RenameIfDuplex(m, Head(clientKeys)), Tail(clientKeys))

(***************************************************************************)
(* unpackMapping.                                                          *)
(***************************************************************************)
Panicked == [panic |-> TRUE, val |-> EmptyMap]

\* info["packet"].([]interface{})[1].([]interface{})[0]
\*   .(map[string]interface{})["type"], then
\* pType.([]interface{})[1].(map[string]interface{})["mappings"]
\*   .(map[string]interface{}):
\* every failed type assertion or index out of range is a run-time panic
packetMappings(info) ==
  IF "packet" \notin DOMAIN info THEN Panicked
  ELSE LET packet == info["packet"] IN
  IF packet.kind # "list" THEN Panicked
  ELSE IF Len(packet.val) < 2 THEN Panicked
  ELSE LET fields == packet.val[2] IN
  IF fields.kind # "list" THEN Panicked
  ELSE IF Len(fields.val) < 1 THEN Panicked
  ELSE LET first == fields.val[1] IN
  IF first.kind # "map" THEN Panicked
  ELSE IF "type" \notin DOMAIN first.val THEN Panicked
  ELSE LET pType == first.val["type"] IN
  IF pType.kind # "list" THEN Panicked
  ELSE IF Len(pType.val) < 2 THEN Panicked
  ELSE LET args == pType.val[2] IN
  IF args.kind # "map" THEN Panicked
  ELSE IF "mappings" \notin DOMAIN args.val THEN Panicked
  ELSE IF args.val["mappings"].kind # "map" THEN Panicked
  ELSE [panic |-> FALSE, val |-> args.val["mappings"].val]

\* one direction of unpackMapping up to the range over mappings
navigate(input, gameState, direction) ==
  LET u == unnest(input, <<gameState, direction, "types">>) IN
  IF ~u.ok THEN [status |-> "err", err |-> u.err, val |-> EmptyMap]
  ELSE LET m == packetMappings(u.val) IN
       IF m.panic THEN [status |-> "panic", err |-> "", val |-> EmptyMap]
       ELSE [status |-> "ok", err |-> "", val |-> m.val]

\* for k, v := range mappings { out[strcase.ToCamel(v.(string))] = k }:
\* the maps the loop can build; of two ids with one name the later visited wins
Inversions(mappings) ==
  LET names == {ToCamel(mappings[k].val) : k \in DOMAIN mappings}
  IN {g \in [names -> DOMAIN mappings] :
        \A n \in names : ToCamel(mappings[g[n]].val) = n}

AllStrings(mappings) == \A k \in DOMAIN mappings : mappings[k].kind = "string"

\* the results unpackMapping(data, gameState) can have: status "ok" with the
\* duplexMappings val, status "err" with the error err, or a panic
unpackMapping(input, gameState) ==
  LET c == navigate(input, gameState, "toClient") IN
  IF c.status # "ok"
    THEN {[status |-> c.status, err |-> c.err, val |-> ZeroDuplex]}
  ELSE IF ~AllStrings(c.val)
    THEN {[status |-> "panic", err |-> "", val |-> ZeroDuplex]}
  ELSE LET s == navigate(input, gameState, "toServer") IN
  IF s.status # "ok"
    THEN {[status |-> s.status, err |-> s.err, val |-> ZeroDuplex]}
  ELSE IF ~AllStrings(s.val)
    THEN {[status |-> "panic", err |-> "", val |-> ZeroDuplex]}
  ELSE {[status |-> "ok", err |-> "",
         val |-> [Clientbound |-> g, Serverbound |-> h]] :
           g \in Inversions(c.val), h \in Inversions(s.val)}

(***************************************************************************)
(* protocolIDs.MaxLen.                                                     *)
(***************************************************************************)
RECURSIVE MaxOverKeys(_, _)
\* for k := range keys { if len(k) > max { max = len(k) } }
MaxOverKeys(keys, max) ==
  IF keys = {} THEN max
  ELSE LET k == CHOOSE x \in keys : TRUE
       IN MaxOverKeys(keys \ {k}, IF Len(k) > max THEN Len(k) ELSE max)

RECURSIVE MaxOverMappings(_, _)
MaxOverMappings(ms, max) ==
  IF ms = <<>> THEN max
  ELSE MaxOverMappings(Tail(ms),
         MaxOverKeys(DOMAIN Head(ms).Serverbound,
           MaxOverKeys(DOMAIN Head(ms).Clientbound, max)))

\* MaxLen with the status state left out of the slice it ranges over
MaxLenWithoutStatus(p) == MaxOverMappings(<<p.login, p.play>>, 0)

MaxLen(p) == MaxOverMappings(<<p.login, p.play, p.status>>, 0)

(***************************************************************************)
(* The schema documents the decode step can produce: the protocol.json     *)
(* layout, with at most one path broken at one step.                       *)
(***************************************************************************)
\* where a path of the document can depart from the layout
PhaseShapes == {"noPhase", "phaseNotMap", "noDirection", "directionNotMap"}
ErrorShapes == PhaseShapes \cup {"noTypes", "typesNotMap"}
PanicShapes ==
  {"noPacket", "packetNotList", "packetShort", "fieldsNotList", "fieldsEmpty",
   "fieldNotMap", "noType", "typeNotList", "typeShort", "argsNotMap",
   "noMappings", "mappingsNotMap", "valueNotString"}
Shapes == ErrorShapes \cup PanicShapes

WellFormed == [p |-> "none", d |-> "none", shape |-> "ok"]
Defects == [p : Phases, d : Directions, shape : Shapes]

Pair(k, v) == [x \in {k} |-> v]

\* the id of the i-th packet of a mapping, counted from 0
IdText(i) == "0x0" \o Char(Digits, i + 1)

\* the value of a direction of a phase, e.g. data["play"]["toClient"], whose
\* mappings object maps the ids 0x00, 0x01, ... to the declared names s
DirectionValue(sh, s) ==
  LET named == [id \in {IdText(i - 1) : i \in 1..Len(s)} |->
                  JStr(s[CHOOSE i \in 1..Len(s) : IdText(i - 1) = id])]
      mappings ==
        CASE sh = "mappingsNotMap" -> JStr("varint")
          [] sh = "valueNotString" -> JMap(named @@ Pair("0x7f", JNum(127)))
          [] OTHER -> JMap(named)
      args ==
        CASE sh = "argsNotMap" -> JStr("varint")
          [] sh = "noMappings" -> JMap(Pair("type", JStr("varint")))
          [] OTHER -> JMap(Pair("type", JStr("varint")) @@ Pair("mappings", mappings))
      pType ==
        CASE sh = "typeNotList" -> JStr("varint")
          [] sh = "typeShort" -> JList(<<JStr("mapper")>>)
          [] OTHER -> JList(<<JStr("mapper"), args>>)
      first ==
        CASE sh = "fieldNotMap" -> JStr("name")
          [] sh = "noType" -> JMap(Pair("name", JStr("name")))
          [] OTHER -> JMap(Pair("name", JStr("name")) @@ Pair("type", pType))
      fields ==
        CASE sh = "fieldsNotList" -> JStr("name")
          [] sh = "fieldsEmpty" -> JList(<<>>)
          [] OTHER -> JList(<<first, JMap(Pair("name", JStr("params")))>>)
      packet ==
        CASE sh = "packetNotList" -> JStr("container")
          [] sh = "packetShort" -> JList(<<JStr("container")>>)
          [] OTHER -> JList(<<JStr("container"), fields>>)
      types ==
        CASE sh = "typesNotMap" -> JList(<<>>)
          [] sh = "noPacket" -> JMap(EmptyMap)
          [] OTHER -> JMap(Pair("packet", packet))
  IN CASE sh = "directionNotMap" -> JStr("toClient")
       [] sh = "noTypes" -> JMap(EmptyMap)
       [] OTHER -> JMap(Pair("types", types))

ShapeAt(defect, p, d) ==
  IF defect.p = p /\ defect.d = d THEN defect.shape ELSE "ok"

\* the decoded document whose mapping of phase p and direction d declares
\* the names e[<<p, d>>], with the defect (or WellFormed)
Document(defect, e) ==
  LET present == {p \in Phases : ~(defect.p = p /\ defect.shape = "noPhase")}
      dirs(p) == {d \in Directions :
                    ~(ShapeAt(defect, p, d) = "noDirection")}
  IN [p \in present |->
        IF defect.p = p /\ defect.shape = "phaseNotMap" THEN JStr(p)
        ELSE JMap([d \in dirs(p) |->
                     DirectionValue(ShapeAt(defect, p, d), e[<<p, d>>])])]

NameSeqs(n) == UNION {[1..k -> RawNames] : k \in 0..n}

RECURSIVE EntriesOver(_, _)
\* the ways to declare at most n packets in all over the mappings ms
EntriesOver(ms, n) ==
  IF ms = {} THEN {[x \in {} |-> <<>>]}
  ELSE LET m == CHOOSE x \in ms : TRUE
       IN UNION {{Pair(m, s) @@ rest : rest \in EntriesOver(ms \ {m}, n - Len(s))} :
                   s \in NameSeqs(n)}

Entries(n) == EntriesOver(Phases \X Directions, n)

(***************************************************************************)
(* The generated file.                                                     *)
(***************************************************************************)
Text(t) == [kind |-> "text", text |-> t, name |-> "", pad |-> "", id |-> ""]
Comment(t) == [kind |-> "comment", text |-> t, name |-> "", pad |-> "", id |-> ""]

\* fmt.Fprintf(f, "  %s%s PktID = %s\n", k, strings.Repeat(" ", n-len(k)), v)
Decl(k, v, n) ==
  LET pad == Repeat(" ", n - Len(k))
  IN [kind |-> "decl", text |-> "  " \o k \o pad \o " PktID = " \o v,
      name |-> k, pad |-> pad, id |-> v]

Header ==
  <<Text("// This file is automatically generated by gen_packetIDs.go. DO NOT EDIT."),
    Text(""), Text("package data"), Text(""),
    Text("//go:generate go run gen_packetIDs.go"), Text(""),
    Text("// PktID represents a packet ID used in the minecraft protocol."),
    Text("type PktID int32"), Text(""),
    Text("// Valid PktID values."), Text("const (")>>

\* for k, v := range m { Fprintf(...) }, the range visiting m in order ord
Group(m, ord, n) == [i \in 1..Len(ord) |-> Decl(ord[i], m[ord[i]], n)]

GroupComments ==
  [login |-> [Clientbound |-> "  // Clientbound packets for connections in the login state.",
              Serverbound |-> "  // Serverbound packets for connections in the login state."],
   play |-> [Clientbound |-> "  // Clientbound packets for connections in the play state.",
             Serverbound |-> "  // Serverbound packets for connections in the play state."],
   status |-> [Clientbound |-> "  // Clientbound packets used to respond to ping/status requests.",
               Serverbound |-> "  // Serverbound packets used to ping or read server status."]]

\* the lines of one state: both groups and the blank line after them
PhaseLines(p, m, oc, os, n) ==
  <<Comment(GroupComments[p].Clientbound)>> \o Group(m.Clientbound, oc, n)
  \o <<Comment(GroupComments[p].Serverbound)>> \o Group(m.Serverbound, os, n)
  \o <<Text("")>>

\* a key longer than n makes strings.Repeat panic on a negative count
RepeatPanics(p, n) ==
  \E ph \in Phases :
    \E k \in DOMAIN p[ph].Clientbound \cup DOMAIN p[ph].Serverbound : Len(k) > n

PriorLines == <<Text("// an earlier packetIDs.go")>>

(***************************************************************************)
(* main and downloadInfo.                                                  *)
(***************************************************************************)
UnpackPc(p) == "unpack_" \o p
EnsurePc(p) == "ensure_" \o p

\* the statement after the EnsureUniqueNames call of phase p
AfterPhase(p) ==
  CASE p = "login" -> UnpackPc("play")
    [] p = "play" -> UnpackPc("status")
    [] OTHER -> "maxlen"

\* the prefix downloadInfo puts before the error of phase p
ErrLabel(p) ==
  CASE p = "login" -> "login: "
    [] p = "play" -> "play: "
    [] OTHER -> "play: "

\* the error check missing after the unpackMapping call of the status state
PhaseFailedUncheckedStatus(p, r) == r.status = "err" /\ p # "status"

\* if out.X, err = unpackMapping(data, p); err != nil
PhaseFailed(p, r) == r.status = "err"

NoProtocolIDs == [p \in Phases |-> ZeroDuplex]

\* the start of main; an earlier run has left a packetIDs.go behind
Init ==
  /\ pc = "fetch"
  /\ data = EmptyMap
  /\ out = NoProtocolIDs
  /\ maxLen = 0
  /\ file = [state |-> "prior", lines |-> PriorLines]
  /\ stderr = ""
  /\ exitCode = -1

\* main: fmt.Fprintf(os.Stderr, "Error: %v\n", err); os.Exit(1)
Abort(err) ==
  /\ stderr' = "Error: " \o err \o "\n"
  /\ exitCode' = 1
  /\ pc' = "exit"

\* an uncaught run-time panic ends the process with status 2
Panic ==
  /\ stderr' = "panic: runtime error\n"
  /\ exitCode' = 2
  /\ pc' = "exit"

FetchOK ==
  /\ pc = "fetch"
  /\ pc' = "decode"
  /\ UNCHANGED <<data, out, maxLen, file, stderr, exitCode>>

FetchFail ==
  /\ pc = "fetch"
  /\ Abort("Get " \o Quote("protocol.json") \o ": connection refused")
  /\ UNCHANGED <<data, out, maxLen, file>>

DecodeOK ==
  /\ pc = "decode"
  /\ \/ \E e \in Entries(MaxEntries) : data' = Document(WellFormed, e)
     \/ \E defect \in Defects : \E e \in Entries(MaxEntriesMalformed) :
          data' = Document(defect, e)
  /\ pc' = UnpackPc("login")
  /\ UNCHANGED <<out, maxLen, file, stderr, exitCode>>

DecodeFail ==
  /\ pc = "decode"
  /\ Abort("invalid character '<' looking for beginning of value")
  /\ UNCHANGED <<data, out, maxLen, file>>

Unpack(p) ==
  /\ pc = UnpackPc(p)
  /\ \E r \in unpackMapping(data, p) :
       IF r.status = "panic"
         THEN Panic /\ UNCHANGED <<out>>
       ELSE IF PhaseFailed(p, r)
         THEN Abort(ErrLabel(p) \o r.err) /\ UNCHANGED <<out>>
       ELSE /\ out' = [out EXCEPT ![p] = r.val]
            /\ pc' = EnsurePc(p)
            /\ UNCHANGED <<stderr, exitCode>>
  /\ UNCHANGED <<data, maxLen, file>>

Ensure(p) ==
  /\ pc = EnsurePc(p)
  /\ \E clientKeys \in Perms(DOMAIN out[p].Clientbound) :
       out' = [out EXCEPT ![p] = EnsureUniqueNames(out[p], clientKeys)]
  /\ pc' = AfterPhase(p)
  /\ UNCHANGED <<data, maxLen, file, stderr, exitCode>>

ComputeMaxLen ==
  /\ pc = "maxlen"
  /\ maxLen' = MaxLen(out)
  /\ pc' = "create"
  /\ UNCHANGED <<data, out, file, stderr, exitCode>>

CreateOK ==
  /\ pc = "create"
  /\ file' = [state |-> "created", lines |-> <<>>]
  /\ pc' = "write"
  /\ UNCHANGED <<data, out, maxLen, stderr, exitCode>>

CreateFail ==
  /\ pc = "create"
  /\ Abort("open packetIDs.go: permission denied")
  /\ UNCHANGED <<data, out, maxLen, file>>

WriteFile ==
  /\ pc = "write"
  /\ IF RepeatPanics(out, maxLen)
       THEN /\ file' = [file EXCEPT !.lines = Header]
            /\ Panic
       ELSE /\ \E lc \in Perms(DOMAIN out.login.Clientbound),
                  ls \in Perms(DOMAIN out.login.Serverbound),
                  pc_ \in Perms(DOMAIN out.play.Clientbound),
                  ps \in Perms(DOMAIN out.play.Serverbound),
                  sc \in Perms(DOMAIN out.status.Clientbound),
                  ss \in Perms(DOMAIN out.status.Serverbound) :
                 file' = [file EXCEPT !.lines =
                            Header
                            \o PhaseLines("login", out.login, lc, ls, maxLen)
                            \o PhaseLines("play", out.play, pc_, ps, maxLen)
                            \o PhaseLines("status", out.status, sc, ss, maxLen)
                            \o <<Text(")")>>]
            /\ pc' = "done"
            /\ exitCode' = 0
            /\ UNCHANGED stderr
  /\ UNCHANGED <<data, out, maxLen>>

Next ==
  \/ FetchOK
  \/ FetchFail
  \/ DecodeOK
  \/ DecodeFail
  \/ \E p \in Phases : Unpack(p)
  \/ \E p \in Phases : Ensure(p)
  \/ ComputeMaxLen
  \/ CreateOK
  \/ CreateFail
  \/ WriteFile

Spec == Init /\ [][Next]_vars

(***************************************************************************)
(* What the properties speak of: the layout a document is read against,    *)
(* the names and declaration lines of a run.                               *)
(***************************************************************************)
Key(k) == [key |-> k, index |-> 0]
Index(i) == [key |-> "", index |-> i]

\* the fixed path to the mappings of a phase and direction (lists from 1)
Path(p, d) ==
  <<Key(p), Key(d), Key("types"), Key("packet"), Index(2), Index(1),
    Key("type"), Index(2), Key("mappings")>>

RECURSIVE Walk(_, _)
\* follow steps from v: "ok" with the value reached, or how the first
\* failing step fails and at which key
Walk(v, steps) ==
  IF steps = <<>> THEN [res |-> "ok", val |-> v, at |-> ""]
  ELSE LET st == Head(steps) IN
       IF st.index = 0
         THEN IF v.kind # "map" THEN [res |-> "shape", val |-> v, at |-> st.key]
              ELSE IF st.key \notin DOMAIN v.val
                THEN [res |-> "missing", val |-> v, at |-> st.key]
              ELSE Walk(v.val[st.key], Tail(steps))
       ELSE IF v.kind # "list" THEN [res |-> "shape", val |-> v, at |-> ""]
       ELSE IF Len(v.val) < st.index THEN [res |-> "short", val |-> v, at |-> ""]
       ELSE Walk(v.val[st.index], Tail(steps))

\* how the document doc meets the path of phase p and direction d
PathState(doc, p, d) ==
  LET w == Walk(JMap(doc), Path(p, d)) IN
  IF w.res # "ok" THEN w.res
  ELSE IF w.val.kind # "map" THEN "shape"
  ELSE IF \E k \in DOMAIN w.val.val : w.val.val[k].kind # "string" THEN "shape"
  ELSE "ok"

PhaseWellFormed(doc, p) == \A d \in Directions : PathState(doc, p, d) = "ok"

\* the mappings object of the schema for phase p and direction d
SchemaMappings(doc, p, d) == Walk(JMap(doc), Path(p, d)).val.val

Decoded == data # EmptyMap

EarlierPhases(p) ==
  CASE p = "login" -> {}
    [] p = "play" -> {"login"}
    [] OTHER -> {"login", "play"}

\* EnsureUniqueNames of phase p has returned
Resolved(p) ==
  /\ pc \in {"maxlen", "create", "write", "done"}
            \cup {UnpackPc(q) : q \in {q \in Phases : p \in EarlierPhases(q)}}
            \cup {EnsurePc(q) : q \in {q \in Phases : p \in EarlierPhases(q)}}

AllNames ==
  UNION {DOMAIN out[p].Clientbound \cup DOMAIN out[p].Serverbound : p \in Phases}

DeclLines == {i \in DOMAIN file.lines : file.lines[i].kind = "decl"}

\* the group of line i: the number of group comments at or before it
GroupOf(i) == Cardinality({j \in 1..i : file.lines[j].kind = "comment"})

GroupNumber(p, d) ==
  (CASE p = "login" -> 0 [] p = "play" -> 2 [] OTHER -> 4)
  + (IF d = "toClient" THEN 1 ELSE 2)

Untouched == file = [state |-> "prior", lines |-> PriorLines]

(***************************************************************************)
(* The properties.                                                         *)
(***************************************************************************)

\* C1: after EnsureUniqueNames has returned for a phase, no name is a key of
\* both the Clientbound and the Serverbound mapping of that phase.
C1_DisjointAfterEnsure ==
  \A p \in Phases :
    Resolved(p) =>
      DOMAIN out[p].Clientbound \cap DOMAIN out[p].Serverbound = {}

\* C2: every name k that is a key of both mappings before EnsureUniqueNames
\* runs is afterwards a key of neither, while Clientbound maps
\* k+"Clientbound" and Serverbound maps k+"Serverbound" to the ids they held
\* for k before.
C2_CollidingRenamed ==
  [][\A p \in Phases :
       pc = EnsurePc(p) =>
         \A k \in DOMAIN out[p].Clientbound \cap DOMAIN out[p].Serverbound :
           /\ k \o "Clientbound" \in DOMAIN out'[p].Clientbound
           /\ out'[p].Clientbound[k \o "Clientbound"] = out[p].Clientbound[k]
           /\ k \o "Serverbound" \in DOMAIN out'[p].Serverbound
           /\ out'[p].Serverbound[k \o "Serverbound"] = out[p].Serverbound[k]
           /\ k \notin DOMAIN out'[p].Clientbound
           /\ k \notin DOMAIN out'[p].Serverbound]_vars

\* C3: in a successful run no identifier name stands on more than one
\* declaration line of the constant block, over all six groups.
C3_NamesUniqueInOutput ==
  pc = "done" =>
    \A i, j \in DeclLines :
      i # j => file.lines[i].name # file.lines[j].name

\* C4: when the document lacks a required key on the path of phase p and the
\* earlier phases are well-formed, the error main prints is prefixed with
\* the name of phase p.
C4_ErrorNamesPhase ==
  \A p \in Phases :
    ( /\ pc = "exit"
      /\ exitCode = 1
      /\ Decoded
      /\ \A q \in EarlierPhases(p) : PhaseWellFormed(data, q)
      /\ \E d \in Directions : PathState(data, p, d) = "missing" )
    => HasPrefix(stderr, "Error: " \o p \o ": ")

\* C5: packetIDs.go is created (a prior version truncated) only after the
\* fetch, the decode and the navigation and resolution of all three phases
\* have succeeded; in a run where one of them fails the file is never
\* created and the prior file is left as it was.
C5_CreateOnlyAfterSuccess ==
  /\ ~Untouched =>
       /\ Decoded
       /\ \A p \in Phases : PhaseWellFormed(data, p)
       /\ pc \in {"write", "done", "exit"}
  /\ (pc = "exit" /\ (~Decoded \/ \E p \in Phases : ~PhaseWellFormed(data, p)))
       => Untouched

\* C5 witness: a run that failed in the navigation of the play state, after
\* the login state was unpacked, and left the prior file as it was.
C5_Witness ==
  /\ pc = "exit"
  /\ Decoded
  /\ PhaseWellFormed(data, "login")
  /\ DOMAIN out.login.Clientbound # {}
  /\ ~PhaseWellFormed(data, "play")
  /\ Untouched

\* C6: at every step of the navigation path that meets a missing key, a
\* too-short list or a value of the wrong shape, unpackMapping returns an
\* error naming a key: it neither panics nor returns a mapping.
C6_MalformedIsError ==
  \A p \in Phases :
    (pc = UnpackPc(p) /\ ~PhaseWellFormed(data, p)) =>
      \A r \in unpackMapping(data, p) :
        r.status = "err" /\ HasPrefix(r.err, "key ")

\* C7: in a successful run maxLen is the greatest length of a name of the
\* six resolved mappings (0 when there is none), the identifier field of
\* every declaration line, name and padding, is maxLen wide, and no padding
\* count is negative.
C7_MaxLenAligned ==
  /\ pc \in {"create", "write", "done"} =>
       /\ \A k \in AllNames : Len(k) <= maxLen
       /\ IF AllNames = {} THEN maxLen = 0
          ELSE \E k \in AllNames : Len(k) = maxLen
  /\ \A i \in DeclLines :
       Len(file.lines[i].name) + Len(file.lines[i].pad) = maxLen
  /\ file.state = "created" => exitCode # 2
  /\ pc = "done" => {file.lines[i].name : i \in DeclLines} = AllNames

\* C7 witness: a finished file with declaration lines of names of different
\* lengths, the shorter one padded.
C7_Witness ==
  /\ pc = "done"
  /\ \E i, j \in DeclLines :
       /\ Len(file.lines[i].name) < Len(file.lines[j].name)
       /\ Len(file.lines[i].pad) > 0
       /\ Len(file.lines[j].name) = maxLen

\* C8: in a successful run every packet entry of the six mappings of the
\* schema has exactly one declaration line, in the group of its phase and
\* direction and with its id, and there are no other declaration lines.
C8_OneLinePerEntry ==
  pc = "done" =>
    /\ \A p \in Phases, d \in Directions :
         \A id \in DOMAIN SchemaMappings(data, p, d) :
           Cardinality({i \in DeclLines :
                          /\ GroupOf(i) = GroupNumber(p, d)
                          /\ file.lines[i].id = id}) = 1
    /\ \A i \in DeclLines :
         \E p \in Phases, d \in Directions :
           /\ GroupOf(i) = GroupNumber(p, d)
           /\ file.lines[i].id \in DOMAIN SchemaMappings(data, p, d)

\* C9: EnsureUniqueNames leaves every name that is a key of exactly one of
\* the two mappings where it is: still a key of that mapping, with the same
\* id, and not a key of the other mapping.
C9_OthersUnchanged ==
  [][\A p \in Phases :
       pc = EnsurePc(p) =>
         /\ \A k \in DOMAIN out[p].Clientbound \ DOMAIN out[p].Serverbound :
              /\ k \in DOMAIN out'[p].Clientbound
              /\ out'[p].Clientbound[k] = out[p].Clientbound[k]
              /\ k \notin DOMAIN out'[p].Serverbound
         /\ \A k \in DOMAIN out[p].Serverbound \ DOMAIN out[p].Clientbound :
              /\ k \in DOMAIN out'[p].Serverbound
              /\ out'[p].Serverbound[k] = out[p].Serverbound[k]
              /\ k \notin DOMAIN out'[p].Clientbound]_vars

\* C10: the result of EnsureUniqueNames is the same for every order in which
\* the clientbound keys can be visited.
C10_OrderIndependent ==
  \A p \in Phases :
    pc = EnsurePc(p) =>
      \A o1, o2 \in Perms(DOMAIN out[p].Clientbound) :
        EnsureUniqueNames(out[p], o1) = EnsureUniqueNames(out[p], o2)
====
